---- MODULE Spec2Model ----
\* State-machine model of the lbrytv-player blob-to-bytes pipeline:
\* the request handlers (Handle, HandleV4), the Stream reader (Seek, Read,
\* readFromChunks, attemptReadFromChunks, RemoveChunk, GetChunk), the prefetch
\* goroutines (prefetchChunk) and the blob source behind them (hot cache with a
\* single-flight gate, disk store, origin).
\*
\* One request and its Stream are modelled.  The foreground goroutine runs the
\* handler and the Reads; every `go s.prefetchChunk(k)` is a task of its own
\* that interleaves with it at the calls into the blob source.
EXTENDS Integers, Sequences, FiniteSets, TLC

\* ------------------------------------------------------------------ bounds
\* Plaintext bytes per full chunk (2 MiB - 16 in the program, scaled down).
MaxChunkSize == 2
\* Number of chunks a prefetch task looks ahead (scaled down).
DefaultPrefetchLen == 2
\* Content blobs of the modelled stream (the terminator comes on top).
NumChunks == 3
\* Longest destination buffer handed to Read.
MaxReadLen == 2
\* Largest absolute offset handed to Seek.
MaxSeek == 2
\* Largest seekOffset the model follows (SeekCurrent is unbounded in the code).
MaxOffset == 6
\* Most content blobs of a stream the calls of CallSpec are made on.
MaxBlobs == 10

\* ------------------------------------------------------- program constants
StatusOK == 200
StatusPermanentRedirect == 308
StatusUnauthorized == 401
StatusPaymentRequired == 402
StatusNotFound == 404
StatusGone == 410
StatusInternalServerError == 500
StatusServiceUnavailable == 503
SeekStart == 0
SeekCurrent == 1
SeekEnd == 2

\* ----------------------------------------------------------------- helpers
Min(a, b) == IF a < b THEN a ELSE b

Abs(a) == IF a < 0 THEN 0 - a ELSE a

\* The hash of the terminator blob info: hex.EncodeToString(nil) = "".
EmptyHash == -1

\* Marks a destination byte no chunk read has written.
NoByte == -1

\* Error values.  "nil" is Go's nil error.
NoErr == "nil"
errOutOfBounds == "out of bounds"
errStreamSizeZero == "stream size is zero"
errSeekingBeforeStart == "seeking before the beginning of file"
errInvalidWhence == "invalid seek whence argument"
errBlobIndex == "blob index out of bounds"
errBlobNotFound == "blob not found"
errPaidStream == "paid stream"
errStreamNotFound == "could not resolve stream URI"
errHashMismatch == "hash in response does not match"
errTokenSegments == "token contains an invalid number of segments"
errTokenSignature == "crypto/rsa: verification error"
errTokenExpired == "token is expired"
errTimeout == "timeout"
errUpstream == "upstream unavailable"
EOF == "EOF"
\* A run-time panic of the goroutine: index out of range.
Panic == "panic: index out of range"
errOther == "other"

\* What the origin fails with while fetching a content blob it holds.
OriginErrs == {errTimeout}

\* Errors the collaborators of the handler (resolve, access, SD blob) fail with.
ResolveErrs == {errStreamNotFound, errPaidStream, errOther}
AccessErrs == {errTokenSegments, errTokenSignature, errTokenExpired, errPaidStream}
SDBlobErrs == {errBlobNotFound, errHashMismatch, errTimeout}

\* The foreground goroutine as a caller of the blob source; prefetch tasks
\* are named by the chunk index they start at.
Foreground == 0
TaskIds == 1 .. (NumChunks + 1)
Callers == {Foreground} \cup TaskIds

\* ------------------------------------------------------------------- state
VARIABLES
    \* request handler
    method,             \* "GET" | "HEAD"
    hpc,                \* position of the handler
    status,             \* status code written to the response, 0 = none yet
    headers,            \* writeHeaders has run
    resolved,           \* ResolveStream returned no error
    verified,           \* VerifyAccess returned no error
    prepareCalled,      \* PrepareForReading has been called
    cancelled,          \* the context of the request is cancelled
    \* stream descriptor as the origin holds it, and the claim
    descLens,           \* plaintext length of every content chunk
    prefetch,           \* player.prefetch
    call,               \* the last call made directly on the stream or the
                        \* handler's helpers, with what it returned (CallSpec)
    \* Stream
    sdBlob,             \* s.sdBlob.BlobInfos, <<>> while nil
    Size,               \* s.Size, source.GetSize() of the claim at first
    seekOffset,         \* s.seekOffset
    prefetchedChunks,   \* s.prefetchedChunks
    \* Stream.Read in progress
    fpc,                \* position of the foreground Read
    rd,                 \* locals and result of the current / last Read
    \* prefetch goroutines
    task,
    \* blob source
    hot,                \* hashes whose chunk the hot cache holds
    disk,               \* disk store
    fetching,           \* <<caller, hash>>: caller runs the origin fetch of hash
    waiting,            \* <<caller, hash>>: caller waits on the fetch of hash
    reply               \* what GetChunk handed each caller, "none" while pending

handlerVars == <<method, hpc, status, headers, resolved, verified, prepareCalled, cancelled>>
envVars == <<descLens, prefetch, call>>
streamVars == <<sdBlob, Size, seekOffset, prefetchedChunks>>
readVars == <<fpc, rd>>
cacheVars == <<hot, disk, fetching, waiting, reply>>
vars == <<handlerVars, envVars, streamVars, readVars, task, cacheVars>>

\* -------------------------------------------------------------- descriptor
\* Length of the encrypted blob of a chunk of p plaintext bytes: a full chunk
\* fills a blob of stream.MaxBlobSize, a shorter one is padded.
MaxBlobSize == MaxChunkSize + 1
BlobLength(p) == IF p = MaxChunkSize THEN MaxBlobSize ELSE p + 1

\* The blob infos of the stream: the content blobs, then the terminator
\* (length 0, no hash).  Go index i is position i + 1.
Descriptor(lens) ==
    [j \in 1 .. (Len(lens) + 1) |->
        IF j <= Len(lens)
        THEN [Length |-> BlobLength(lens[j]), BlobHash |-> j - 1]
        ELSE [Length |-> 0, BlobHash |-> EmptyHash]]

\* The streams the model runs on: the stream of no content (its descriptor
\* is the terminator alone), and full chunks followed by a shorter last chunk.
Descriptors ==
    {<<>>} \cup
    {[j \in 1 .. NumChunks |-> IF j < NumChunks THEN MaxChunkSize ELSE l] :
        l \in 1 .. (MaxChunkSize - 1)}

\* Plaintext of the stream: byte p of the stream has value 100 + p.
PlainByte(p) == 100 + p
Chunk(i) == [k \in 1 .. descLens[i + 1] |-> PlainByte(i * MaxChunkSize + k - 1)]
PlainSize ==
    IF Len(descLens) = 0 THEN 0
    ELSE (Len(descLens) - 1) * MaxChunkSize + descLens[Len(descLens)]
Plaintext == [p \in 1 .. PlainSize |-> PlainByte(p - 1)]

\* hex.EncodeToString(bi.BlobHash)
HashOf(i) == sdBlob[i + 1].BlobHash

\* No call has been recorded.
NoCall == [op |-> "none", args |-> <<>>, ret |-> <<>>, prev |-> <<>>]

\* The locals and the result of Stream.Read while no Read has been made
\* since the stream was created or repositioned (and once Play is over).
NoRead ==
    [offset |-> 0, len |-> 0,
     sr |-> [FirstChunkIdx |-> 0, LastChunkIdx |-> 0, FirstChunkOffset |-> 0, LastChunkReadLen |-> 0],
     try |-> 0, i |-> 0, read |-> 0, err |-> NoErr,
     dest |-> <<>>, outs |-> <<>>, purged |-> <<>>,
     n |-> 0, rerr |-> NoErr, done |-> FALSE]

\* ------------------------------------------------------------- blob source
\* The hot cache over the disk store over the origin (spec sections 4.A-4.C).
InHot(h) == h \in hot

\* IsCached(hash)
IsCached(h) == InHot(h)

\* The chunk of h enters the hot cache.
HotInsert(set, h) == set \cup {h}

\* A gate that never sees the fetch under way.
InFlightUnseen(h) == FALSE

\* The single-flight gate: an origin fetch of h is under way.
InFlight(h) == \E f \in fetching : f[2] = h

\* blobSource.GetChunk(hash, key, iv) called by c: a hot hit answers at once;
\* a miss joins the fetch under way for the hash, or is served from the disk
\* store, or starts the origin fetch.
HCGetChunk(c, h) ==
    IF InHot(h)
    THEN /\ reply' = [reply EXCEPT ![c] = "ok"]
         /\ UNCHANGED <<hot, disk, fetching, waiting>>
    ELSE IF InFlight(h)
    THEN /\ waiting' = waiting \cup {<<c, h>>}
         /\ UNCHANGED <<hot, disk, fetching, reply>>
    ELSE IF h \in disk
    THEN /\ hot' = HotInsert(hot, h)
         /\ reply' = [reply EXCEPT ![c] = "ok"]
         /\ UNCHANGED <<disk, fetching, waiting>>
    ELSE /\ fetching' = fetching \cup {<<c, h>>}
         /\ UNCHANGED <<hot, disk, waiting, reply>>

\* What an origin fetch of h can end with: the origin holds every content
\* blob of the stream and nothing under the empty hash.
FetchResults(h) == IF h = EmptyHash THEN {errBlobNotFound} ELSE {"ok"} \cup OriginErrs

\* A store that keeps an entry for the hash whatever the fetch ended with.
StoredAfterAnyFetch(res, set, h) == set \cup {h}

\* A store after the fetch of h ended with res: no result is cached on failure.
StoredAfterFetch(res, set, h) == IF res = "ok" THEN set \cup {h} ELSE set

\* The origin fetch run by c ends: on success the blob is written through to
\* the disk store and its chunk to the hot cache; the fetcher and every
\* caller waiting on the hash get the same result; a failure caches nothing.
OriginDone(c) ==
    \E f \in fetching :
        /\ f[1] = c
        /\ \E res \in FetchResults(f[2]) :
            LET served == {c} \cup {w[1] : w \in {x \in waiting : x[2] = f[2]}}
            IN  /\ fetching' = fetching \ {f}
                /\ waiting' = {x \in waiting : x[2] # f[2]}
                /\ reply' = [x \in Callers |-> IF x \in served THEN res ELSE reply[x]]
                /\ hot' = StoredAfterFetch(res, hot, f[2])
                /\ disk' = StoredAfterFetch(res, disk, f[2])
        /\ UNCHANGED <<handlerVars, envVars, streamVars, readVars, task>>

\* The hot cache is shared with the other requests of the server, whose
\* insertions push entries of this stream out of it at any time.
HotEvict ==
    /\ \E h \in hot : hot' = hot \ {h}
    /\ UNCHANGED <<handlerVars, envVars, streamVars, readVars, task, disk, fetching, waiting, reply>>

\* clearChuckFromCache(hash): ClearChunk on the hot cache and the disk store.
ClearedHot(h) == hot \ {h}
ClearedDisk(h) == disk \ {h}

\* ------------------------------------------------------------ stream size
\* uint64 arithmetic, the 64 bits scaled down to 16.
Uint64Mod == 2 ^ 16
U64(x) == x % Uint64Mod

RECURSIVE HeuristicSum(_, _)
\* The loop of setSize over the blob infos from position j on.
HeuristicSum(infos, j) ==
    IF j > Len(infos) THEN 0
    ELSE (IF infos[j].Length = MaxBlobSize
          THEN MaxChunkSize
          ELSE U64(infos[j].Length - 1)) + HeuristicSum(infos, j + 1)

\* setSize once getStreamSizeFromLastBlobSize has failed.
HeuristicSize(infos) == U64(HeuristicSum(infos, 1) - 16)

\* getStreamSizeFromLastBlobSize that counts the last chunk among the full ones.
SizeFromLastChunkCountsLast(infos, lastLen) == U64(MaxChunkSize * (Len(infos) - 1) + lastLen)

\* getStreamSizeFromLastBlobSize with the last content chunk fetched.
SizeFromLastChunk(infos, lastLen) == U64(MaxChunkSize * (Len(infos) - 2) + lastLen)

\* ---------------------------------------------------------- request handler
\* processStreamError: the status written for an error.
ProcessStreamError(err) ==
    IF err = errPaidStream THEN StatusPaymentRequired
    ELSE IF err = errStreamNotFound THEN StatusNotFound
    ELSE IF err = errBlobNotFound THEN StatusServiceUnavailable
    ELSE IF err = errHashMismatch THEN StatusServiceUnavailable
    ELSE IF err = errTokenSegments THEN StatusUnauthorized
    ELSE IF err = errTokenSignature THEN StatusUnauthorized
    ELSE IF err = errTokenExpired THEN StatusGone
    ELSE StatusInternalServerError

\* w.WriteHeader: the first status written is the one the client gets.
WriteHeader(code) == IF status = 0 THEN code ELSE status

notHandler == <<envVars, streamVars, readVars, task, cacheVars>>

\* A /speech/ URL with nothing before the extension.
HEmptyURI ==
    /\ hpc = "start"
    /\ status' = WriteHeader(StatusNotFound)
    /\ hpc' = "done"
    /\ UNCHANGED <<method, headers, resolved, verified, prepareCalled, cancelled, notHandler>>

\* h.player.ResolveStream(uri), in Handle (next "verify") and in HandleV4
\* (next "transcode").  From VerifyAccess on the two handlers run the same
\* code, and the model runs it once for both.
Resolve(next) ==
    /\ hpc = "start"
    /\ \E err \in {NoErr} \cup ResolveErrs :
        IF err = NoErr
        THEN /\ resolved' = TRUE
             /\ hpc' = next
             /\ UNCHANGED status
        ELSE /\ status' = WriteHeader(ProcessStreamError(err))
             /\ hpc' = "done"
             /\ UNCHANGED resolved
    /\ UNCHANGED <<method, headers, verified, prepareCalled, cancelled, notHandler>>

HResolve == Resolve("verify")

HResolveV4 == Resolve("transcode")

\* HandleV4: h.player.tclient.Get("hls", ...) and the redirect to the
\* transcoded variant when there is one.
HTranscode ==
    /\ hpc = "transcode"
    /\ \E cv \in BOOLEAN :
        IF cv
        THEN /\ status' = WriteHeader(StatusPermanentRedirect)
             /\ hpc' = "done"
        ELSE /\ hpc' = "verify"
             /\ UNCHANGED status
    /\ UNCHANGED <<method, headers, resolved, verified, prepareCalled, cancelled, notHandler>>

\* h.player.VerifyAccess(s, token)
HVerify ==
    /\ hpc = "verify"
    /\ \E err \in {NoErr} \cup AccessErrs :
        IF err = NoErr
        THEN /\ verified' = TRUE
             /\ hpc' = "prepare"
             /\ UNCHANGED status
        ELSE /\ status' = WriteHeader(ProcessStreamError(err))
             /\ hpc' = "done"
             /\ UNCHANGED verified
    /\ UNCHANGED <<method, headers, resolved, prepareCalled, cancelled, notHandler>>

\* s.PrepareForReading(): GetSDBlob, then setSize.  No other goroutine of the
\* request runs yet, so the fetch of the last chunk is taken in one step.
HPrepare ==
    /\ hpc = "prepare"
    /\ prepareCalled' = TRUE
    /\ \E err \in {NoErr} \cup SDBlobErrs :
        IF err # NoErr
        THEN /\ status' = WriteHeader(ProcessStreamError(err))
             /\ hpc' = "done"
             /\ UNCHANGED <<sdBlob, Size, hot, disk>>
        ELSE LET infos == Descriptor(descLens)
                 numChunks == Len(infos) - 1
                 lastHash == infos[numChunks].BlobHash
             IN  /\ sdBlob' = infos
                 /\ hpc' = "respond"
                 /\ UNCHANGED status
                 /\ IF Size > 0 \/ numChunks <= 0
                    THEN UNCHANGED <<Size, hot, disk>>
                    ELSE \E res \in FetchResults(lastHash) :
                            IF res = "ok"
                            THEN /\ Size' = SizeFromLastChunk(infos, descLens[numChunks])
                                 /\ hot' = HotInsert(hot, lastHash)
                                 /\ disk' = disk \cup {lastHash}
                            ELSE /\ Size' = HeuristicSize(infos)
                                 /\ UNCHANGED <<hot, disk>>
    /\ UNCHANGED <<method, headers, resolved, verified, cancelled>>
    /\ UNCHANGED <<envVars, seekOffset, prefetchedChunks, readVars, task, fetching, waiting, reply>>

\* writeHeaders, then 200 for HEAD, or Play for GET (which writes the status
\* of the response, 200 here also for a partial one, and reads the stream).
HRespond ==
    /\ hpc = "respond"
    /\ headers' = TRUE
    /\ IF method = "HEAD"
       THEN /\ status' = WriteHeader(StatusOK)
            /\ hpc' = "done"
       ELSE /\ status' = WriteHeader(StatusOK)
            /\ hpc' = "play"
    /\ UNCHANGED <<method, resolved, verified, prepareCalled, cancelled, notHandler>>

\* Play returns between two calls on the stream, the response complete or
\* given up, and the handler returns: the server cancels the context of the
\* request if the client has not done so before.
HPlayDone ==
    /\ hpc = "play"
    /\ fpc = "idle"
    /\ hpc' = "done"
    /\ cancelled' = TRUE
    /\ rd' = NoRead
    /\ UNCHANGED <<method, status, headers, resolved, verified, prepareCalled>>
    /\ UNCHANGED <<envVars, streamVars, fpc, task, cacheVars>>

\* The client disconnects while the response is being served: the context
\* of the request is cancelled, and Play makes no further call on the stream.
Cancel ==
    /\ hpc = "play"
    /\ ~cancelled
    /\ cancelled' = TRUE
    /\ UNCHANGED <<method, hpc, status, headers, resolved, verified, prepareCalled, notHandler>>

\* ------------------------------------------------------------ stream reader
\* getRange(offset, readLen): the chunks a read of readLen bytes at offset
\* touches (spec section 4.E, Read, step 1).
getRange(offset, readLen) ==
    LET last == (offset + readLen - 1) \div MaxChunkSize
    IN  [FirstChunkIdx |-> offset \div MaxChunkSize,
         LastChunkIdx |-> last,
         FirstChunkOffset |-> offset % MaxChunkSize,
         LastChunkReadLen |-> (offset + readLen) - last * MaxChunkSize]

\* sr.ByteRangeForChunk(i): <<offset in chunk i, bytes to read from it>>.
ByteRangeForChunk(sr, i) ==
    LET from == IF i = sr.FirstChunkIdx THEN sr.FirstChunkOffset ELSE 0
        to == IF i = sr.LastChunkIdx THEN sr.LastChunkReadLen ELSE MaxChunkSize
    IN  <<from, to - from>>

\* ReadableChunk.Read(offset, maxLen, dest) on chunk b, dest of destLen bytes
\* (spec section 4.D): the bytes copied to the start of dest, or OutOfBounds.
ChunkRead(b, offset, maxLen, destLen) ==
    IF offset >= Len(b)
    THEN [n |-> 0, err |-> errOutOfBounds, bytes |-> <<>>]
    ELSE LET m == Min(Min(maxLen, Len(b) - offset), destLen)
             n == IF m < 0 THEN 0 ELSE m
         IN  [n |-> n, err |-> NoErr, bytes |-> SubSeq(b, offset + 1, offset + n)]

\* copy(dest[read:], bytes)
Copied(dest, read, bytes) ==
    [k \in 1 .. Len(dest) |->
        IF k > read /\ k <= read + Len(bytes) THEN bytes[k - read] ELSE dest[k]]

\* Stream.Seek with the whence tested before the size and the offset.
SeekResultWhenceFirst(offset, whence) ==
    IF whence \notin {SeekStart, SeekCurrent, SeekEnd}
    THEN <<0, errInvalidWhence, seekOffset>>
    ELSE IF Size = 0 THEN <<0, errStreamSizeZero, seekOffset>>
    ELSE IF Abs(offset) > Size THEN <<0, errOutOfBounds, seekOffset>>
    ELSE LET newOffset == IF whence = SeekStart THEN offset
                          ELSE IF whence = SeekCurrent THEN seekOffset + offset
                          ELSE Size - offset
         IN  IF newOffset < 0
             THEN <<0, errSeekingBeforeStart, seekOffset>>
             ELSE <<newOffset, NoErr, newOffset>>

\* Stream.Seek(offset, whence): <<position returned, error, new seekOffset>>.
SeekResult(offset, whence) ==
    IF Size = 0 THEN <<0, errStreamSizeZero, seekOffset>>
    ELSE IF Abs(offset) > Size THEN <<0, errOutOfBounds, seekOffset>>
    ELSE IF whence \notin {SeekStart, SeekCurrent, SeekEnd}
    THEN <<0, errInvalidWhence, seekOffset>>
    ELSE LET newOffset == IF whence = SeekStart THEN offset
                          ELSE IF whence = SeekCurrent THEN seekOffset + offset
                          ELSE Size - offset
         IN  IF newOffset < 0
             THEN <<0, errSeekingBeforeStart, seekOffset>>
             ELSE <<newOffset, NoErr, newOffset>>

\* A call of Seek by the code serving the response.
Seek ==
    /\ hpc = "play"
    /\ ~cancelled
    /\ fpc = "idle"
    /\ \E offset \in (0 - MaxSeek) .. MaxSeek, whence \in 0 .. 3 :
        /\ SeekResult(offset, whence)[3] <= MaxOffset
        /\ seekOffset' = SeekResult(offset, whence)[3]
    /\ rd' = NoRead
    /\ UNCHANGED <<handlerVars, envVars, sdBlob, Size, prefetchedChunks, fpc, task, cacheVars>>

\* Stream.Read(dest) is entered with a buffer of readLen bytes: getRange,
\* then readFromChunks starts its first attempt.
ReadBegin ==
    /\ hpc = "play"
    /\ ~cancelled
    /\ fpc = "idle"
    /\ \E readLen \in 0 .. MaxReadLen :
        LET sr == getRange(seekOffset, readLen)
        IN  rd' = [offset |-> seekOffset, len |-> readLen, sr |-> sr,
                   try |-> 0, i |-> sr.FirstChunkIdx, read |-> 0, err |-> NoErr,
                   dest |-> [k \in 1 .. readLen |-> NoByte],
                   outs |-> <<>>, purged |-> <<>>,
                   n |-> 0, rerr |-> NoErr, done |-> FALSE]
    /\ fpc' = "loop"
    /\ UNCHANGED <<handlerVars, envVars, streamVars, task, cacheVars>>

\* The guard of Stream.GetChunk and Stream.RemoveChunk and the indexing that
\* follows it: the error, a run-time panic (index out of range), or the blob
\* info at chunkIdx.
IndexCheck(chunkIdx) ==
    IF chunkIdx > Len(sdBlob) THEN "bounds"
    ELSE IF chunkIdx = Len(sdBlob) THEN "panic"
    ELSE "info"

\* The attempt is over with (i, read, err).
AttemptOver(r, err) == [r EXCEPT !.err = err]

\* attemptReadFromChunks at the head of its loop: past the last chunk of the
\* range it returns (i, read, nil); otherwise Stream.GetChunk(i) checks the
\* index, indexes the blob infos and calls the blob source.
FgLoop ==
    /\ fpc = "loop"
    /\ IF rd.i >= rd.sr.LastChunkIdx + 1
       THEN /\ rd' = AttemptOver(rd, NoErr)
            /\ fpc' = "attempted"
            /\ UNCHANGED <<hpc, cacheVars>>
       ELSE IF IndexCheck(rd.i) = "bounds"
       THEN /\ rd' = AttemptOver(rd, errBlobIndex)
            /\ fpc' = "attempted"
            /\ UNCHANGED <<hpc, cacheVars>>
       ELSE IF IndexCheck(rd.i) = "panic"
       THEN \* BlobInfos[chunkIdx] with chunkIdx = len(BlobInfos): the goroutine panics
            /\ fpc' = "panic"
            /\ hpc' = "done"
            /\ UNCHANGED <<rd, cacheVars>>
       ELSE /\ HCGetChunk(Foreground, HashOf(rd.i))
            /\ fpc' = "await"
            /\ UNCHANGED <<hpc, rd>>
    /\ UNCHANGED <<method, status, headers, resolved, verified, prepareCalled, cancelled>>
    /\ UNCHANGED <<envVars, streamVars, task>>

\* prefetchChunk that counts the terminator among the chunks left.
PrefetchLenWithTerminator(chunkIdx) ==
    LET chunksLeft == Len(sdBlob) - chunkIdx
    IN  IF chunksLeft < DefaultPrefetchLen THEN chunksLeft ELSE DefaultPrefetchLen

\* prefetchChunk(chunkIdx) up to its loop: the number of chunks it will walk.
PrefetchLen(chunkIdx) ==
    LET chunksLeft == Len(sdBlob) - chunkIdx - 1
    IN  IF chunksLeft < DefaultPrefetchLen THEN chunksLeft ELSE DefaultPrefetchLen

\* go s.prefetchChunk(chunkIdx): the task returns at once when there is
\* nothing left to prefetch, else it walks BlobInfos[chunkIdx : chunkIdx+prefetchLen].
NewTask(chunkIdx) ==
    IF PrefetchLen(chunkIdx) <= 0
    THEN [pc |-> "done", idx |-> chunkIdx, end |-> chunkIdx]
    ELSE [pc |-> "check", idx |-> chunkIdx, end |-> chunkIdx + PrefetchLen(chunkIdx)]

NoTask == [pc |-> "none", idx |-> 0, end |-> 0]

\* Stream.GetChunk that does not look the next index up in prefetchedChunks.
LaunchesPrefetchUnseen(chunkIdx) == prefetch

\* Stream.GetChunk after the blob source returned a chunk: whether it
\* launches a prefetch task for chunkIdx + 1.
LaunchesPrefetch(chunkIdx) == prefetch /\ (chunkIdx + 1) \notin prefetchedChunks

\* The blob source answers the GetChunk of the foreground read.  An error
\* ends the attempt.  A chunk makes Stream.GetChunk schedule the prefetch of
\* the next index, and attemptReadFromChunks copy its bytes and move on.
FgChunk ==
    /\ fpc = "await"
    /\ reply[Foreground] # "none"
    /\ reply' = [reply EXCEPT ![Foreground] = "none"]
    /\ IF reply[Foreground] # "ok"
       THEN /\ rd' = AttemptOver(rd, reply[Foreground])
            /\ fpc' = "attempted"
            /\ UNCHANGED <<prefetchedChunks, task>>
       ELSE LET range == ByteRangeForChunk(rd.sr, rd.i)
                got == ChunkRead(Chunk(rd.i), range[1], range[2], Len(rd.dest) - rd.read)
                r == [rd EXCEPT !.dest = Copied(rd.dest, rd.read, got.bytes),
                                !.read = rd.read + got.n]
            IN  /\ IF LaunchesPrefetch(rd.i)
                   THEN /\ prefetchedChunks' = prefetchedChunks \cup {rd.i + 1}
                        /\ task' = [task EXCEPT ![rd.i + 1] = NewTask(rd.i + 1)]
                   ELSE UNCHANGED <<prefetchedChunks, task>>
                /\ IF got.err # NoErr
                   THEN /\ rd' = AttemptOver(r, got.err)
                        /\ fpc' = "attempted"
                   ELSE /\ rd' = [r EXCEPT !.i = rd.i + 1]
                        /\ fpc' = "loop"
    /\ UNCHANGED <<handlerVars, envVars, sdBlob, Size, seekOffset, hot, disk, fetching, waiting>>

\* readFromChunks after an attempt returned (index, read, err): what it
\* returns, or "purge" when it removes the chunk and goes round its loop.
\* The read and err of the attempt are declared inside the loop body, so the
\* read returned after the loop is the one declared before it, which is 0.
AfterAttempt(read, err) ==
    IF err # NoErr THEN [act |-> "return", n |-> read, err |-> err]
    ELSE IF read > 0 THEN [act |-> "return", n |-> 0, err |-> NoErr]
    ELSE [act |-> "purge", n |-> 0, err |-> NoErr]

\* Stream.Read after readFromChunks: the error it returns.  The error made
\* for n == 0 && err == nil is a new variable of the if block.
ReadError(n, err) == err

\* Stream.Read returns (n, err) and has advanced seekOffset by n.
Returned(r, n, err) == [r EXCEPT !.n = n, !.rerr = ReadError(n, err), !.done = TRUE]

\* readFromChunks between attempts, and the return of Stream.Read.
FgAfterAttempt ==
    /\ fpc = "attempted"
    /\ LET r == [rd EXCEPT !.outs = Append(rd.outs, <<rd.read, rd.err>>)]
           after == AfterAttempt(rd.read, rd.err)
       IN  IF after.act = "return"
           THEN /\ rd' = Returned(r, after.n, after.err)
                /\ seekOffset' = seekOffset + after.n
                /\ fpc' = "idle"
                /\ UNCHANGED <<hpc, hot, disk>>
           ELSE \* RemoveChunk(index)
                IF IndexCheck(rd.i) = "bounds"
                THEN /\ rd' = Returned(r, rd.read, errBlobIndex)
                     /\ seekOffset' = seekOffset + rd.read
                     /\ fpc' = "idle"
                     /\ UNCHANGED <<hpc, hot, disk>>
                ELSE IF IndexCheck(rd.i) = "panic"
                THEN /\ rd' = r
                     /\ fpc' = "panic"
                     /\ hpc' = "done"
                     /\ UNCHANGED <<seekOffset, hot, disk>>
                ELSE /\ hot' = ClearedHot(HashOf(rd.i))
                     /\ disk' = ClearedDisk(HashOf(rd.i))
                     /\ UNCHANGED hpc
                     /\ IF rd.try + 1 < 2
                        THEN /\ rd' = [r EXCEPT !.purged = Append(rd.purged, rd.i),
                                                !.try = rd.try + 1,
                                                !.i = rd.sr.FirstChunkIdx,
                                                !.read = 0, !.err = NoErr]
                             /\ fpc' = "loop"
                             /\ UNCHANGED seekOffset
                        ELSE /\ rd' = Returned([r EXCEPT !.purged = Append(rd.purged, rd.i)], 0, NoErr)
                             /\ seekOffset' = seekOffset
                             /\ fpc' = "idle"
    /\ UNCHANGED <<method, status, headers, resolved, verified, prepareCalled, cancelled>>
    /\ UNCHANGED <<envVars, sdBlob, Size, prefetchedChunks, task, fetching, waiting, reply>>

\* -------------------------------------------------------- prefetch goroutines
\* prefetchChunk without its IsCached test.
PrefetchSkipsNothing(h) == FALSE

\* prefetchChunk skips a blob the hot cache reports as cached.
PrefetchSkips(h) == IsCached(h)

\* The range loop of prefetchChunk moves to the next blob info, and the
\* task returns when there is none left.
TaskAdvanced(t) ==
    IF t.idx + 1 >= t.end
    THEN [t EXCEPT !.pc = "done", !.idx = t.idx + 1]
    ELSE [t EXCEPT !.pc = "check", !.idx = t.idx + 1]

\* prefetchChunk at the head of an iteration: the chunk is cached and
\* skipped, or it is about to be fetched.
TaskChecked(t) ==
    IF PrefetchSkips(HashOf(t.idx)) THEN TaskAdvanced(t)
    ELSE [t EXCEPT !.pc = "call"]

PfCheck(s) ==
    /\ task[s].pc = "check"
    /\ task' = [task EXCEPT ![s] = TaskChecked(task[s])]
    /\ UNCHANGED <<handlerVars, envVars, streamVars, readVars, cacheVars>>

\* s.player.blobSource.GetChunk(hash, key, iv) of the prefetch task.
PfCall(s) ==
    /\ task[s].pc = "call"
    /\ HCGetChunk(s, HashOf(task[s].idx))
    /\ task' = [task EXCEPT ![s].pc = "await"]
    /\ UNCHANGED <<handlerVars, envVars, streamVars, readVars>>

\* prefetchChunk that logs the error and goes on with the next blob info.
TaskRepliedGoesOn(t, res) == TaskAdvanced(t)

\* prefetchChunk after GetChunk returned: an error is logged and ends the
\* task, a chunk is dropped and the loop goes on.
TaskReplied(t, res) ==
    IF res # "ok" THEN [t EXCEPT !.pc = "failed"]
    ELSE TaskAdvanced(t)

PfReturn(s) ==
    /\ task[s].pc = "await"
    /\ reply[s] # "none"
    /\ task' = [task EXCEPT ![s] = TaskReplied(task[s], reply[s])]
    /\ reply' = [reply EXCEPT ![s] = "none"]
    /\ UNCHANGED <<handlerVars, envVars, streamVars, readVars, hot, disk, fetching, waiting>>

\* ------------------------------------------------------------ specification
\* NewRequestHandler / NewStream: a request has arrived for a claim that
\* carries no size (0) or the size of the plaintext; the caches are cold.
Init ==
    /\ method \in {"GET", "HEAD"}
    /\ hpc = "start"
    /\ status = 0
    /\ headers = FALSE
    /\ resolved = FALSE
    /\ verified = FALSE
    /\ prepareCalled = FALSE
    /\ cancelled = FALSE
    /\ descLens \in Descriptors
    /\ prefetch \in BOOLEAN
    /\ call = NoCall
    /\ sdBlob = <<>>
    /\ Size \in {0, PlainSize}
    /\ seekOffset = 0
    /\ prefetchedChunks = {}
    /\ fpc = "idle"
    /\ rd = NoRead
    /\ task = [s \in TaskIds |-> NoTask]
    /\ hot = {}
    /\ disk = {}
    /\ fetching = {}
    /\ waiting = {}
    /\ reply = [c \in Callers |-> "none"]

Next ==
    \/ HEmptyURI
    \/ HResolve
    \/ HResolveV4
    \/ HTranscode
    \/ HVerify
    \/ HPrepare
    \/ HRespond
    \/ HPlayDone
    \/ Cancel
    \/ Seek
    \/ ReadBegin
    \/ FgLoop
    \/ FgChunk
    \/ FgAfterAttempt
    \/ \E s \in TaskIds : PfCheck(s) \/ PfCall(s) \/ PfReturn(s)
    \/ \E c \in Callers : OriginDone(c)
    \/ HotEvict

Spec == Init /\ [][Next]_vars

\* ------------------------------------------------- calls on a prepared stream
\* CallSpec: PrepareForReading on streams of 0 .. MaxBlobs content blobs, then
\* the methods of the Stream and the error mapping of the handler applied one
\* whole call at a time, with what each call was given and what it returned
\* recorded in `call`.  During the calls the blob source serves every content
\* blob the stream has (no origin failure, no concurrent request), and
\* prefetch is off.
CallDescriptors ==
    {[j \in 1 .. k |-> MaxChunkSize] : k \in 0 .. (MaxBlobs - 1)} \cup
    {[j \in 1 .. k |-> IF j < k THEN MaxChunkSize ELSE l] :
        k \in 1 .. MaxBlobs, l \in 1 .. (MaxChunkSize - 1)}

\* The error kinds handed to processStreamError.
ErrorKinds ==
    {errPaidStream, errStreamNotFound, errBlobNotFound, errHashMismatch,
     errTokenSegments, errTokenSignature, errTokenExpired, errTimeout,
     errUpstream, errOutOfBounds, errBlobIndex, errOther}

CallInit ==
    /\ method = "GET"
    /\ hpc = "prepare"
    /\ status = 0
    /\ headers = FALSE
    /\ resolved = TRUE
    /\ verified = TRUE
    /\ prepareCalled = FALSE
    /\ cancelled = FALSE
    /\ descLens \in CallDescriptors
    /\ prefetch = FALSE
    /\ call = NoCall
    /\ sdBlob = <<>>
    /\ Size \in {0, PlainSize}
    /\ seekOffset = 0
    /\ prefetchedChunks = {}
    /\ fpc = "idle"
    /\ rd = NoRead
    /\ task = [s \in TaskIds |-> NoTask]
    /\ hot = {}
    /\ disk = {}
    /\ fetching = {}
    /\ waiting = {}
    /\ reply = [c \in Callers |-> "none"]

\* What a call leaves alone besides the fields it is about.
callRest == <<method, status, headers, resolved, verified, prepareCalled, cancelled,
              descLens, prefetch, sdBlob, Size, prefetchedChunks, readVars, task,
              fetching, waiting, reply>>

\* The calls are followed on the streams of at most NumChunks content blobs
\* while the response is being served; PrepareForReading is followed on all.
Serving == hpc = "play" /\ Len(descLens) <= NumChunks

\* Stream.Seek(offset, whence), the whole call.
SeekCall ==
    /\ Serving
    /\ \E offset \in (0 - MaxSeek) .. MaxSeek, whence \in 0 .. 3 :
        LET res == SeekResult(offset, whence)
        IN  /\ res[3] <= MaxOffset
            /\ seekOffset' = res[3]
            /\ call' = [op |-> "Seek", args |-> <<offset, whence, seekOffset>>,
                        ret |-> <<res[1], res[2]>>, prev |-> <<>>]
    /\ UNCHANGED <<callRest, hpc, hot, disk>>

RECURSIVE AttemptQuiet(_, _, _, _)
\* attemptReadFromChunks from chunk i on, with read bytes in dest so far.
AttemptQuiet(sr, i, read, dest) ==
    IF i >= sr.LastChunkIdx + 1
    THEN [i |-> i, read |-> read, err |-> NoErr, dest |-> dest]
    ELSE IF IndexCheck(i) = "bounds"
    THEN [i |-> i, read |-> read, err |-> errBlobIndex, dest |-> dest]
    ELSE IF IndexCheck(i) = "panic"
    THEN [i |-> i, read |-> read, err |-> Panic, dest |-> dest]
    ELSE IF HashOf(i) = EmptyHash
    THEN [i |-> i, read |-> read, err |-> errBlobNotFound, dest |-> dest]
    ELSE LET range == ByteRangeForChunk(sr, i)
             got == ChunkRead(Chunk(i), range[1], range[2], Len(dest) - read)
             filled == Copied(dest, read, got.bytes)
         IN  IF got.err # NoErr
             THEN [i |-> i, read |-> read + got.n, err |-> got.err, dest |-> filled]
             ELSE AttemptQuiet(sr, i + 1, read + got.n, filled)

\* Stream.Read(dest) at offset with len(dest) = readLen, the whole call:
\* what it returns, the buffer, the chunk indices it fetched and purged.
ReadQuiet(offset, readLen) ==
    LET sr == getRange(offset, readLen)
        a == AttemptQuiet(sr, sr.FirstChunkIdx, 0, [k \in 1 .. readLen |-> NoByte])
        after == AfterAttempt(a.read, a.err)
        got == {k \in sr.FirstChunkIdx .. (a.i - 1) : k < Len(sdBlob) - 1}
    IN  IF a.err = Panic
        THEN [n |-> 0, err |-> Panic, dest |-> a.dest, got |-> got, purged |-> {}]
        ELSE IF after.act = "return"
        THEN [n |-> after.n, err |-> ReadError(after.n, after.err), dest |-> a.dest,
              got |-> got, purged |-> {}]
        ELSE IF IndexCheck(a.i) = "bounds"
        THEN [n |-> a.read, err |-> ReadError(a.read, errBlobIndex), dest |-> a.dest,
              got |-> got, purged |-> {}]
        ELSE IF IndexCheck(a.i) = "panic"
        THEN [n |-> 0, err |-> Panic, dest |-> a.dest, got |-> got, purged |-> {}]
        ELSE \* purge, a second attempt that reads the same, purge again
             [n |-> 0, err |-> ReadError(0, NoErr), dest |-> a.dest,
              got |-> got, purged |-> {a.i}]

ReadCall ==
    /\ Serving
    /\ \E readLen \in 0 .. MaxReadLen :
        LET res == ReadQuiet(seekOffset, readLen)
            kept == {HashOf(k) : k \in res.got} \ {HashOf(k) : k \in res.purged}
            gone == {HashOf(k) : k \in res.purged}
        IN  /\ seekOffset + res.n <= MaxOffset
            /\ seekOffset' = seekOffset + res.n
            /\ hpc' = IF res.err = Panic THEN "done" ELSE hpc
            /\ hot' = (hot \ gone) \cup kept
            /\ disk' = (disk \ gone) \cup kept
            /\ call' = [op |-> "Read", args |-> <<seekOffset, readLen>>,
                        ret |-> <<res.n, res.err, res.dest>>,
                        prev |-> IF call.op = "Read" THEN <<call.args, call.ret>> ELSE <<>>]
    /\ UNCHANGED callRest

\* Stream.GetChunk(chunkIdx), the whole call.
GetChunkCall ==
    /\ Serving
    /\ \E chunkIdx \in 0 .. (Len(sdBlob) + 1) :
        LET check == IndexCheck(chunkIdx)
            served == check = "info" /\ HashOf(chunkIdx) # EmptyHash
        IN  /\ call' = [op |-> "GetChunk", args |-> <<chunkIdx>>,
                        ret |-> <<IF check = "bounds" THEN errBlobIndex
                                  ELSE IF check = "panic" THEN Panic
                                  ELSE IF served THEN NoErr ELSE errBlobNotFound>>,
                        prev |-> <<>>]
            /\ hpc' = IF check = "panic" THEN "done" ELSE hpc
            /\ hot' = IF served THEN HotInsert(hot, HashOf(chunkIdx)) ELSE hot
            /\ disk' = IF served THEN disk \cup {HashOf(chunkIdx)} ELSE disk
    /\ UNCHANGED <<callRest, seekOffset>>

\* Stream.RemoveChunk(chunkIdx), the whole call.
RemoveChunkCall ==
    /\ Serving
    /\ \E chunkIdx \in 0 .. (Len(sdBlob) + 1) :
        LET check == IndexCheck(chunkIdx)
        IN  /\ call' = [op |-> "RemoveChunk", args |-> <<chunkIdx>>,
                        ret |-> <<IF check = "bounds" THEN errBlobIndex
                                  ELSE IF check = "panic" THEN Panic ELSE NoErr>>,
                        prev |-> <<>>]
            /\ hpc' = IF check = "panic" THEN "done" ELSE hpc
            /\ hot' = IF check = "info" THEN ClearedHot(HashOf(chunkIdx)) ELSE hot
            /\ disk' = IF check = "info" THEN ClearedDisk(HashOf(chunkIdx)) ELSE disk
    /\ UNCHANGED <<callRest, seekOffset>>

\* processStreamError("playback", uri, w, r, err), after which the handler
\* returns.
ErrorCall ==
    /\ hpc = "play"
    /\ \E err \in ErrorKinds :
        /\ call' = [op |-> "processStreamError", args |-> <<err>>,
                    ret |-> <<ProcessStreamError(err)>>, prev |-> <<>>]
        /\ status' = WriteHeader(ProcessStreamError(err))
    /\ hpc' = "done"
    /\ UNCHANGED <<method, headers, resolved, verified, prepareCalled, cancelled>>
    /\ UNCHANGED <<descLens, prefetch, streamVars, readVars, task, cacheVars>>

CallNext ==
    \/ HPrepare
    \/ HRespond
    \/ SeekCall
    \/ ReadCall
    \/ GetChunkCall
    \/ RemoveChunkCall
    \/ ErrorCall

CallSpec == CallInit /\ [][CallNext]_vars

\* ------------------------------------------------------------------- claims
\* A Read has returned and no other call on the stream has followed.
ReadDone == rd.done

\* Bytes the chunk reads of the attempt that ended the Read copied to dest.
BytesCopied == rd.outs[Len(rd.outs)][1]

\* C1 (as claimed): a Read at offset O whose chunk reads copy n > 0 bytes
\* into the destination without error returns n and leaves seekOffset = O + n.
C1_ReadReturnsBytesCopied ==
    (ReadDone /\ rd.err = NoErr /\ BytesCopied > 0)
        => (rd.n = BytesCopied /\ rd.rerr = NoErr /\ seekOffset = rd.offset + BytesCopied)

\* C2 (as claimed): for a prepared stream, a Read of L >= 1 bytes at offset O
\* with O + L <= Size whose chunks are all fetched delivers L bytes, the
\* plaintext bytes [O, O+L) of the concatenated chunks, chunk boundary or not.
C2_ReadDeliversPlaintext ==
    (ReadDone /\ Size = PlainSize /\ rd.len >= 1 /\ rd.offset + rd.len <= Size /\ rd.err = NoErr)
        => (rd.n = rd.len /\ rd.dest = SubSeq(Plaintext, rd.offset + 1, rd.offset + rd.len))

\* C3 (as claimed): every chunk a Read purges after an attempt whose chunk
\* reads delivered zero bytes without error is a chunk of the range the
\* attempt read, an index in [firstChunk, lastChunk].
C3_PurgedChunkInRange ==
    rd.sr.FirstChunkIdx <= rd.sr.LastChunkIdx =>
        \A k \in 1 .. Len(rd.purged) :
            rd.sr.FirstChunkIdx <= rd.purged[k] /\ rd.purged[k] <= rd.sr.LastChunkIdx

\* C4 (as claimed): within one Read, a first attempt that fails with an error
\* is returned at once, with no purge and no retry; a first attempt of zero
\* bytes without error is followed by exactly one purge and one retry, and
\* the outcome of the second attempt is what Read returns.
C4_OnePurgeOneRetry ==
    ReadDone =>
        /\ rd.outs[1][2] # NoErr =>
            (Len(rd.outs) = 1 /\ rd.purged = <<>> /\ rd.n = rd.outs[1][1] /\ rd.rerr = rd.outs[1][2])
        /\ (rd.outs[1][2] = NoErr /\ rd.outs[1][1] = 0) =>
            (Len(rd.outs) = 2 /\ Len(rd.purged) = 1 /\ rd.n = rd.outs[2][1] /\ rd.rerr = rd.outs[2][2])

\* C5: at any instant at most one origin fetch is in flight for a hash; a
\* caller that asks for a hash whose fetch is in flight waits on that fetch,
\* and when the fetch ends it receives the result the fetcher receives.
C5_OneFetchPerHash ==
    /\ \A f, g \in fetching : f[2] = g[2] => f = g
    /\ \A w \in waiting : InFlight(w[2]) /\ reply[w[1]] = "none" /\ <<w[1], w[2]>> \notin fetching

C5_WaitersGetTheResult ==
    \A w \in waiting : w \notin waiting' =>
        \E f \in fetching : f \notin fetching' /\ f[2] = w[2] /\ reply'[w[1]] = reply'[f[1]]
                            /\ reply'[w[1]] # "none"

C5_SingleFlight == []C5_OneFetchPerHash /\ [][C5_WaitersGetTheResult]_vars

\* C5 witness: a fetch is in flight and another caller waits on it.
C5_Witness == \E f \in fetching : \E w \in waiting : w[2] = f[2] /\ w[1] # f[1]

\* C6 (as claimed): a prefetch task never issues GetChunk for a chunk that
\* is in the hot cache at the moment of the call.
C6_NeverCallsForHotChunk ==
    [][\A s \in TaskIds :
        (task[s].pc = "call" /\ task'[s].pc = "await") => ~InHot(HashOf(task[s].idx))]_vars

\* C6 (amended): a prefetch task never goes on to GetChunk for a chunk that
\* is in the hot cache at the moment of its IsCached check; a chunk that
\* enters the hot cache between the check and the call is answered from the
\* hot cache, at once and without an origin fetch.
C6_SkipsChunkHotAtCheck ==
    [][\A s \in TaskIds :
        /\ (task[s].pc = "check" /\ task'[s].pc = "call") => ~InHot(HashOf(task[s].idx))
        /\ (task[s].pc = "call" /\ task'[s].pc = "await" /\ InHot(HashOf(task[s].idx)))
              => (fetching' = fetching /\ waiting' = waiting /\ reply'[s] = "ok")]_vars

\* C6 witness: a task has passed its check and is about to call GetChunk for
\* a chunk that has entered the hot cache in between.
C6_Witness == \E s \in TaskIds : task[s].pc = "call" /\ InHot(HashOf(task[s].idx))

\* C7: a prefetch task launched for chunk i + 1 = s requests only indices in
\* [s, min(s + window, n - 1)), n the number of blob infos: at most window
\* chunks, never the terminator or an index past the descriptor; and a task
\* launched at the terminator or beyond requests nothing.
C7_PrefetchWithinWindow ==
    \A s \in TaskIds : task[s].pc # "none" =>
        /\ task[s].pc \in {"check", "call", "await"} =>
            /\ s <= task[s].idx
            /\ task[s].idx < Min(s + DefaultPrefetchLen, Len(sdBlob) - 1)
        /\ s >= Len(sdBlob) - 1 => (task[s].pc = "done" /\ task[s].idx = s)

\* C7 witness: a task is about to request the last content chunk, the one
\* before the terminator.
C7_Witness == \E s \in TaskIds : task[s].pc = "call" /\ task[s].idx = Len(sdBlob) - 2

\* C8: when GetChunk fails inside a prefetch task, the task ends there (it
\* requests nothing more, ever), and the step changes neither seekOffset nor
\* anything of the foreground Read: its locals, its position, its result,
\* the answer it has pending from the blob source.
C8_PrefetchFailureContained ==
    [][\A s \in TaskIds :
        /\ (task[s].pc = "await" /\ reply[s] \notin {"none", "ok"} /\ task'[s] # task[s])
              => /\ task'[s].pc = "failed"
                 /\ seekOffset' = seekOffset
                 /\ rd' = rd
                 /\ fpc' = fpc
                 /\ reply'[Foreground] = reply[Foreground]
        /\ task[s].pc = "failed" => task'[s] = task[s]]_vars

\* C8 witness: a prefetch task has ended on a failed GetChunk while the
\* response is still being served.
C8_Witness == \E s \in TaskIds : task[s].pc = "failed" /\ hpc = "play"

\* C9 (as claimed): once the request is cancelled, a prefetch task that
\* reaches the head of an iteration exits instead of fetching: it issues no
\* GetChunk for an index it had not started on when the request was cancelled.
C9_ExitsAtIterationBoundary ==
    [][\A s \in TaskIds :
        (cancelled /\ task[s].pc = "check")
            => (task'[s] = task[s] \/ task'[s].pc = "done")]_vars

\* C10 (as claimed): no success status, no response header and no redirect
\* is written, and PrepareForReading is not called, unless ResolveStream and
\* then VerifyAccess have both succeeded.
C10_ResponseOnlyAfterAccess ==
    /\ (status \in {StatusOK, StatusPermanentRedirect} \/ headers) => (resolved /\ verified)
    /\ prepareCalled => (resolved /\ verified)

\* C11: PrepareForReading settles Size by precedence.  A size > 0 carried by
\* the claim stays and no content chunk is fetched; else, with the last
\* content chunk fetched, Size = MaxChunkSize * (n - 2) + len(last chunk),
\* n the number of blob infos; the heuristic sum is taken only when that
\* fetch failed, and PrepareForReading succeeds all the same.
C11_SizePrecedence ==
    [][(hpc = "prepare" /\ hpc' = "respond") =>
        LET n == Len(sdBlob')
            lastHash == sdBlob'[n - 1].BlobHash
        IN  IF Size > 0
            THEN Size' = Size /\ disk' = disk /\ hot' = hot /\ fetching' = fetching
            ELSE n >= 2 =>
                    \/ /\ lastHash \in disk'
                       /\ Size' = MaxChunkSize * (n - 2) + descLens[n - 1]
                    \/ /\ disk' = disk /\ hot' = hot
                       /\ Size' = HeuristicSize(sdBlob')]_vars

\* C11 witness: PrepareForReading has succeeded on the heuristic sum, the
\* claim carrying no size and the fetch of the last chunk having failed.
C11_Witness ==
    /\ hpc = "respond" /\ Len(descLens) > 0 /\ disk = {}
    /\ Size = HeuristicSize(sdBlob) /\ Size # PlainSize

\* C14 (as claimed): a Read issued with the current offset at Size, Size > 0,
\* returns 0 bytes with EOF, leaves the offset at Size and purges no chunk.
C14_ReadAtSizeIsEOF ==
    (ReadDone /\ Size > 0 /\ rd.offset = Size)
        => (rd.n = 0 /\ rd.rerr = EOF /\ seekOffset = Size /\ rd.purged = <<>>)

\* C15 (as claimed): for a descriptor of the terminator alone and a claim
\* without size, PrepareForReading yields Size = 0, a Read returns 0 bytes
\* with EOF, and no blob is requested by the empty hash of the terminator.
C15_EmptyStreamReadsEOF ==
    (Len(descLens) = 0 /\ Len(sdBlob) = 1) =>
        /\ Size = 0
        /\ ReadDone => (rd.n = 0 /\ rd.rerr = EOF)
        /\ \A f \in fetching \cup waiting : f[2] # EmptyHash

\* C19 (as claimed): Read never returns 0 bytes together with a nil error
\* for a destination buffer that is not empty.
C19_NoSilentZeroRead ==
    (ReadDone /\ rd.len >= 1) => ~(rd.n = 0 /\ rd.rerr = NoErr)

RECURSIVE C12_ContentSum(_, _)
\* The sum the claim gives: over the content blobs from position j on,
\* MaxChunkSize for a blob of length MaxBlobSize, length - 1 for a shorter one.
C12_ContentSum(infos, j) ==
    IF j > Len(infos) - 1 THEN 0
    ELSE (IF infos[j].Length = MaxBlobSize THEN MaxChunkSize ELSE infos[j].Length - 1)
            + C12_ContentSum(infos, j + 1)

\* C12 (as claimed): on the heuristic path (no size in the claim, the last
\* chunk not fetched) Size is the sum over the content blobs minus 16, the
\* terminator adding nothing and nothing wrapping around; stated for the
\* descriptors whose sum exceeds 16.
C12_HeuristicSum ==
    [][(/\ hpc = "prepare" /\ hpc' = "respond"
        /\ Size = 0 /\ Len(descLens) > 0 /\ disk' = disk
        /\ C12_ContentSum(sdBlob', 1) > 16)
            => Size' = C12_ContentSum(sdBlob', 1) - 16]_vars

\* C13: a Seek fails with the error this priority fixes, for every whence and
\* offset: StreamSizeZero when Size = 0; else OutOfBounds when |offset| > Size;
\* else the invalid-whence error when whence is none of start, current, end;
\* else SeekingBeforeStart when the resolved offset is negative; and succeeds
\* otherwise.  A failing Seek returns position 0 and leaves seekOffset as it was.
C13_SeekErrorPriority ==
    call.op = "Seek" =>
        LET offset == call.args[1]
            whence == call.args[2]
            before == call.args[3]
            target == IF whence = SeekStart THEN offset
                        ELSE IF whence = SeekCurrent THEN before + offset
                        ELSE Size + offset
            expected == IF Size = 0 THEN errStreamSizeZero
                        ELSE IF offset > Size \/ 0 - offset > Size THEN errOutOfBounds
                        ELSE IF whence \notin {SeekStart, SeekCurrent, SeekEnd} THEN errInvalidWhence
                        ELSE IF target < 0 THEN errSeekingBeforeStart
                        ELSE NoErr
        IN  /\ call.ret[2] = expected
            /\ call.ret[2] # NoErr => (call.ret[1] = 0 /\ seekOffset = before)

\* C13 witness: a Seek has failed with SeekingBeforeStart, the last of the
\* four errors, on a stream whose offset a previous Seek had moved.
C13_Witness ==
    /\ call.op = "Seek" /\ call.ret[2] = errSeekingBeforeStart
    /\ call.args[2] = SeekCurrent /\ call.args[3] > 0

\* C16 (as claimed): two consecutive Reads of L >= 1 bytes, the first at
\* offset O with O + 2L <= Size, deliver together the bytes one Read of 2L
\* bytes at O delivers, and leave the offset at O + 2L.
C16_TwoReadsAsOne ==
    (call.op = "Read" /\ call.prev # <<>>) =>
        LET O == call.prev[1][1]
            L == call.prev[1][2]
        IN  (call.args[2] = L /\ L >= 1 /\ Size = PlainSize /\ O + 2 * L <= Size) =>
                /\ call.prev[2][3] \o call.ret[3] = ReadQuiet(O, 2 * L).dest
                /\ seekOffset = O + 2 * L

\* C17 (as claimed): processStreamError maps every error kind to the status
\* of the taxonomy: StreamNotFound 404, PaidStream 402, a token that is
\* invalid or cannot be verified 401, an expired token 410, BlobNotFound,
\* HashMismatch, Timeout and UpstreamUnavailable 503, anything else 500.
C17_StatusOfErrorKind ==
    call.op = "processStreamError" =>
        LET err == call.args[1]
        IN  call.ret[1] =
                IF err = errStreamNotFound THEN StatusNotFound
                ELSE IF err = errPaidStream THEN StatusPaymentRequired
                ELSE IF err \in {errTokenSegments, errTokenSignature} THEN StatusUnauthorized
                ELSE IF err = errTokenExpired THEN StatusGone
                ELSE IF err \in {errBlobNotFound, errHashMismatch, errTimeout, errUpstream}
                THEN StatusServiceUnavailable
                ELSE StatusInternalServerError

\* C20 (as claimed): GetChunk and RemoveChunk return 'blob index out of
\* bounds' for every index >= the number of blob infos, and no Read makes
\* them index the list past its end.
C20_IndexGuard ==
    /\ (call.op \in {"GetChunk", "RemoveChunk"} /\ call.args[1] >= Len(sdBlob))
            => call.ret[1] = errBlobIndex
    /\ call.op = "Read" => call.ret[2] # Panic

\* The hash caller c has asked the blob source for and has no answer to yet.
C18_Asked(c) ==
    IF \E x \in fetching \cup waiting : x[1] = c
    THEN (CHOOSE x \in fetching \cup waiting : x[1] = c)[2]
    ELSE IF c = Foreground THEN HashOf(rd.i)
    ELSE HashOf(task[c].idx)

\* C18: the hot cache is transparent over its origin, whatever was requested
\* before: every answer of GetChunk(h) is one a direct origin fetch of h
\* gives, the chunk (or the origin's own failure) when the origin holds h,
\* its blob-not-found error when it does not; a fetch that fails leaves
\* nothing cached, and nothing is ever cached under a hash the origin does
\* not hold.
C18_Answers ==
    \A c \in Callers :
        (reply[c] = "none" /\ reply'[c] # "none") =>
            /\ reply'[c] \in FetchResults(C18_Asked(c))
            /\ reply'[c] # "ok" => (hot' = hot /\ disk' = disk)

C18_NothingCachedUnheld == EmptyHash \notin hot \cup disk

C21_SeekContract ==
    (call.op = "Seek" /\ call.ret[2] = NoErr) =>
        LET offset == call.args[1]
            whence == call.args[2]
            current == call.args[3]
        IN  /\ whence = SeekStart => call.ret[1] = offset
            /\ whence = SeekCurrent => call.ret[1] = current + offset
            /\ whence = SeekEnd => call.ret[1] = Size + offset
            /\ seekOffset = call.ret[1]

\* C22 (as claimed): on a prepared stream with Size > 0 the offset stays
\* within 0 .. Size, whatever Seeks and Reads were called and however they ended.
C22_OffsetWithinSize ==
    (Serving /\ Size > 0) => (0 <= seekOffset /\ seekOffset <= Size)

\* The foreground reader's GetChunk of chunk rd.i returns a chunk in this step.
C23_FetchReturns ==
    fpc = "await" /\ reply[Foreground] = "ok" /\ reply'[Foreground] = "none"

\* A prefetch task with start index j is launched in this step.
C23_Launched(j) == task[j].pc = "none" /\ task'[j].pc # "none"

\* What one step may do to the scheduled-index set and the prefetch tasks.
C23_Step ==
    /\ prefetchedChunks \subseteq prefetchedChunks'
    /\ (prefetchedChunks' # prefetchedChunks \/ \E j \in TaskIds : C23_Launched(j))
            => C23_FetchReturns
    /\ \A j \in TaskIds :
            task'[j] # task[j] => (task[j].pc \notin {"done", "failed"} /\ task'[j].pc # "none")
    /\ C23_FetchReturns =>
            LET j == rd.i + 1
            IN  IF prefetch /\ j \notin prefetchedChunks
                THEN /\ C23_Launched(j)
                     /\ task'[j].idx = j
                     /\ prefetchedChunks' = prefetchedChunks \cup {j}
                     /\ \A k \in TaskIds \ {j} : task'[k] = task[k]
                ELSE /\ task' = task
                     /\ prefetchedChunks' = prefetchedChunks

\* The indices scheduled are those a task was launched with, and there is no
\* task at all while prefetch is disabled.
C23_Scheduled ==
    /\ \A j \in TaskIds : task[j].pc # "none" <=> j \in prefetchedChunks
    /\ prefetchedChunks \subseteq TaskIds
    /\ ~prefetch => \A j \in TaskIds : task[j] = NoTask

\* C23: over the lifetime of a stream at most one prefetch task is launched
\* with start index j: a launch happens only when the foreground reader's
\* fetch of chunk j - 1 returns a chunk while j is not in the scheduled-index
\* set, it adds j to the set, the set never loses an index and changes in no
\* other step, and a fetch of chunk j - 1 that finds j scheduled launches
\* nothing and leaves every task as it is.  With prefetch disabled no task is
\* ever launched.
C23_OneLaunchPerIndex == []C23_Scheduled /\ [][C23_Step]_vars

\* C23 witness: chunk j - 1 is fetched again, the fetch about to return a
\* chunk, while the task launched with start index j at its first fetch has
\* run to its end.
C23_Witness ==
    /\ prefetch
    /\ fpc = "await" /\ reply[Foreground] = "ok"
    /\ rd.i + 1 \in prefetchedChunks
    /\ task[rd.i + 1].pc = "done" /\ task[rd.i + 1].end > rd.i + 1

====
